---- MODULE Spec2Model ----
(***************************************************************************)
(* Model of mongoforms/forms.py: the MongoForm metaclass, MongoForm         *)
(* construction / validate_unique / save, and BaseDocumentFormSet.save.     *)
(*                                                                         *)
(* Python values are records [t, s]: None, a string, or a referenced       *)
(* document carrying its id.  Dicts are functions whose DOMAIN is the set   *)
(* of keys.  Document objects live in `heap` (object identity = index);     *)
(* persisted documents live in `collection` (pk -> field values).           *)
(***************************************************************************)
EXTENDS Integers, Sequences, FiniteSets, TLC

VARIABLES document, meta, collection, heap, form, result, formset, klass

vars == <<document, meta, collection, heap, form, result, formset, klass>>

----------------------------------------------------------------------------
(* Bounds *)

\* documents the collection may hold before a save that inserts is cut off
MaxDocs == 2
\* forms in a formset
MaxForms == 3

----------------------------------------------------------------------------
(* Python values *)

None == [t |-> "none", s |-> ""]
Str(x) == [t |-> "str", s |-> x]
\* a referenced document object whose .id is `id`
Doc(id) == [t |-> "doc", s |-> id]

\* django.core.validators.EMPTY_VALUES = (None, '', [], (), {})
EMPTY_VALUES == {None, Str("")}

\* Python truth value, as used by `field_data and str(field_data.id)`
Truthy(v) == v # None /\ v # Str("")

\* str(field_data.id)
StrOfId(v) == Str(v.s)

NoPk == 0
NoObj == 0

EmptyDict == [k \in {} |-> None]

\* dict.get(k): None when the key is absent
Get(d, k) == IF k \in DOMAIN d THEN d[k] ELSE None

\* dict.update(e): keys of e overwrite
Update(d, e) == [k \in (DOMAIN d) \cup (DOMAIN e) |-> IF k \in DOMAIN e THEN e[k] ELSE d[k]]

\* setattr(obj, k, v) on a dict of attributes
SetAttr(d, k, v) == [x \in (DOMAIN d) \cup {k} |-> IF x = k THEN v ELSE d[x]]

----------------------------------------------------------------------------
(* The document class bound by Meta.document *)

FieldNames == {"name", "owner"}

\* "owner" is a ReferenceField, "name" a StringField
IsReferenceField(f) == f = "owner"

FieldValues(f) == IF IsReferenceField(f) THEN {None, Doc("7")} ELSE {None, Str(""), Str("x")}

AllValues == UNION {FieldValues(f) : f \in FieldNames}

\* all dicts whose keys are in K and whose values have the field's type
DictsOver(K) == { d \in UNION {[D -> AllValues] : D \in SUBSET K} :
                    \A k \in DOMAIN d : d[k] \in FieldValues(k) }

FullDicts == { d \in DictsOver(FieldNames) : DOMAIN d = FieldNames }

\* Document(): every declared field is an attribute holding its default
DefaultVals == [f \in FieldNames |-> None]

\* a document object in memory
Object(pk, vals, adding) == [pk |-> pk, vals |-> vals, _adding |-> adding]

\* utils.iter_valid_fields(meta): the names of the document fields the form
\* covers, in the order they are yielded (Meta.fields / Meta.exclude are
\* resolved there)
iter_valid_fields(m) == m.valid

\* the names a loop over iter_valid_fields(meta) visits
ValidNames(m) == { iter_valid_fields(m)[i] : i \in DOMAIN iter_valid_fields(m) }

\* the orders in which fields of the document can be yielded
ValidSeqs == { q \in UNION {[1..n -> FieldNames] : n \in 0..Cardinality(FieldNames)} :
                 \A i, j \in DOMAIN q : i # j => q[i] # q[j] }

\* names bound in the module's global namespace: the imports of lines 1-9
\* and the module's own classes and functions
ModuleGlobals == {"types", "forms", "EMPTY_VALUES", "SortedDict", "BaseDocument",
                  "MongoFormFieldGenerator", "mongoengine_validate_wrapper",
                  "iter_valid_fields", "ReferenceField", "BaseFormSet",
                  "formset_factory", "MongoFormMetaClass", "MongoForm",
                  "documentform_factory", "BaseDocumentFormSet",
                  "documentformset_factory"}

\* the uniform record describing the last call
Result(op) == [op |-> op, raised |-> "none", ret |-> NoObj, commit |-> FALSE,
               saves |-> 0, coll_before |-> EmptyDict, arg_instance |-> NoObj,
               arg_initial |-> [given |-> FALSE, d |-> EmptyDict],
               errors |-> {}, exclude |-> {}, saved |-> <<>>]

NoForm == [built |-> FALSE, instance |-> NoObj, initial |-> EmptyDict, fields |-> {},
           cleaned |-> FALSE, changed |-> FALSE, cleaned_data |-> EmptyDict, _errors |-> {}]

----------------------------------------------------------------------------
(* MongoForm.__init__ *)

\* lines 93-112: the initial data taken from a given instance
ObjectData(doc, valid, obj) ==
    LET has == { f \in valid : f \in DOMAIN obj.vals }
        skip == doc._dynamic /\ ~doc.has_dfields
        fields == IF ~doc._dynamic THEN FieldNames ELSE doc._dfields
        data(f) == LET v == obj.vals[f]
                   IN IF f \in fields /\ IsReferenceField(f)
                      THEN (IF Truthy(v) THEN StrOfId(v) ELSE v)
                      ELSE v
    IN IF skip THEN EmptyDict ELSE [f \in has |-> data(f)]

\* MongoFormInit with the instance's values overriding the `initial` argument
MongoFormInit_InstanceWins(h, doc, m, instance, initial) ==
    LET fresh == instance = NoObj
        h1 == IF fresh THEN Append(h, Object(NoPk, DefaultVals, "True"))
              ELSE [h EXCEPT ![instance]._adding = "False"]
        inst == IF fresh THEN Len(h) + 1 ELSE instance
        object_data == IF fresh THEN EmptyDict
                       ELSE ObjectData(doc, ValidNames(m), h[instance])
        data == IF initial.given THEN Update(initial.d, object_data) ELSE object_data
    IN [heap |-> h1, instance |-> inst, initial |-> data]

\* lines 84-119 as a function of the heap: returns the new heap, the form's
\* instance and the form's initial data
MongoFormInit(h, doc, m, instance, initial) ==
    LET fresh == instance = NoObj
        h1 == IF fresh THEN Append(h, Object(NoPk, DefaultVals, "True"))
              ELSE [h EXCEPT ![instance]._adding = "False"]
        inst == IF fresh THEN Len(h) + 1 ELSE instance
        object_data == IF fresh THEN EmptyDict
                       ELSE ObjectData(doc, ValidNames(m), h[instance])
        data == IF initial.given THEN Update(object_data, initial.d) ELSE object_data
    IN [heap |-> h1, instance |-> inst, initial |-> data]

\* MongoForm(instance=arg, initial=initial); a given instance is an object the
\* caller holds, either loaded from the collection or not yet saved.  The
\* heap holds the objects of the form under consideration only: the objects
\* of a form the caller dropped are gone.
MongoForm__init__(arg, initial) ==
    /\ LET h0 == IF arg.given THEN <<Object(arg.pk, arg.vals, "unset")>> ELSE <<>>
           instance == IF arg.given THEN Len(h0) ELSE NoObj
           r == MongoFormInit(h0, document, meta, instance, initial)
       IN /\ heap' = r.heap
          /\ form' = [built |-> TRUE, instance |-> r.instance, initial |-> r.initial,
                      fields |-> ValidNames(meta),
                      cleaned |-> FALSE, changed |-> FALSE,
                      cleaned_data |-> EmptyDict, _errors |-> {}]
          /\ result' = [Result("__init__") EXCEPT !.arg_instance = instance,
                                                  !.arg_initial = initial]
    /\ UNCHANGED <<document, meta, collection, formset, klass>>

\* the bound form after django's full_clean(): every form field either has a
\* cleaned value or an entry in _errors; `changed` is what has_changed() tells
Cleaned(f, cd, changed) ==
    [f EXCEPT !.cleaned = TRUE, !.changed = changed, !.cleaned_data = cd,
              !._errors = f.fields \ DOMAIN cd]

full_clean(cd, changed) ==
    /\ form.built /\ ~form.cleaned
    /\ DOMAIN cd \subseteq form.fields
    /\ form' = Cleaned(form, cd, changed)
    /\ result' = Result("full_clean")
    /\ UNCHANGED <<document, meta, collection, heap, formset, klass>>

----------------------------------------------------------------------------
(* MongoForm.validate_unique *)

\* lines 121-149
_get_validation_exclusions(doc, f) ==
    { n \in FieldNames :
        \/ n \notin f.fields
        \/ n \in f._errors
        \/ (~doc.fields[n].required /\ Get(f.cleaned_data, n) \in EMPTY_VALUES) }

\* lines 160-168: the queryset filtered on the field's value, without the
\* instance's own stored copy when it has a pk, is not empty
Collides(coll, obj, n) ==
    \E p \in DOMAIN coll :
        /\ coll[p][n] = obj.vals[n]
        /\ (obj.pk # NoPk => p # obj.pk)

\* lines 151-177
validate_unique ==
    /\ form.built /\ form.cleaned
    /\ LET obj == heap[form.instance]
           exclude == _get_validation_exclusions(document, form)
           hits == { n \in FieldNames : document.fields[n].unique /\ n \notin exclude
                                        /\ Collides(collection, obj, n) }
       IN IF hits = {}
          THEN /\ result' = [Result("validate_unique") EXCEPT !.exclude = exclude]
               /\ form' = form
          ELSE IF "_" \notin ModuleGlobals
          \* line 169 calls `_`, which the module never binds
          THEN /\ result' = [Result("validate_unique") EXCEPT !.exclude = exclude,
                                                              !.raised = "NameError"]
               /\ form' = form
          ELSE /\ result' = [Result("validate_unique") EXCEPT !.exclude = exclude,
                                                              !.errors = hits]
               /\ form' = [form EXCEPT !._errors = @ \cup hits]
    /\ UNCHANGED <<document, meta, collection, heap, formset, klass>>

----------------------------------------------------------------------------
(* MongoForm.save *)

\* the pk the collection gives a document saved for the first time
NewPk(coll) == CHOOSE p \in 1..(Cardinality(DOMAIN coll) + 1) : p \notin DOMAIN coll

\* Document.save(): insert, or replace the stored copy with the same pk
DocSave(h, coll, oid) ==
    LET pk == IF h[oid].pk = NoPk THEN NewPk(coll) ELSE h[oid].pk
    IN [heap |-> [h EXCEPT ![oid].pk = pk],
        coll |-> [p \in (DOMAIN coll) \cup {pk} |-> IF p = pk THEN h[oid].vals ELSE coll[p]]]

RECURSIVE SetAll(_, _, _)
\* line 183-184: setattr(instance, name, cleaned_data.get(name)) for every valid field
SetAll(vals, names, cd) ==
    IF names = {} THEN vals
    ELSE LET n == CHOOSE x \in names : TRUE
         IN SetAll(SetAttr(vals, n, Get(cd, n)), names \ {n}, cd)

\* FormSave that only assigns the names present in cleaned_data
FormSave_SkipAbsent(h, coll, m, f, commit) ==
    LET h1 == [h EXCEPT ![f.instance].vals =
                   SetAll(@, ValidNames(m) \cap DOMAIN f.cleaned_data, f.cleaned_data)]
        s == DocSave(h1, coll, f.instance)
    IN [heap |-> IF commit THEN s.heap ELSE h1,
        coll |-> IF commit THEN s.coll ELSE coll,
        saves |-> IF commit THEN 1 ELSE 0,
        ret |-> f.instance]

\* lines 179-189 as a function of heap and collection
FormSave(h, coll, m, f, commit) ==
    LET h1 == [h EXCEPT ![f.instance].vals = SetAll(@, ValidNames(m), f.cleaned_data)]
        s == DocSave(h1, coll, f.instance)
    IN [heap |-> IF commit THEN s.heap ELSE h1,
        coll |-> IF commit THEN s.coll ELSE coll,
        saves |-> IF commit THEN 1 ELSE 0,
        ret |-> f.instance]

save(commit) ==
    /\ form.built /\ form.cleaned
    /\ (commit /\ heap[form.instance].pk = NoPk) => Cardinality(DOMAIN collection) < MaxDocs
    /\ LET r == FormSave(heap, collection, meta, form, commit)
       IN /\ heap' = r.heap
          /\ collection' = r.coll
          /\ result' = [Result("save") EXCEPT !.ret = r.ret, !.saves = r.saves,
                                              !.commit = commit,
                                              !.coll_before = collection]
    /\ UNCHANGED <<document, meta, form, formset, klass>>

----------------------------------------------------------------------------
(* Specification of one form: construction, cleaning, unique check, save *)

Flags == [unique : BOOLEAN, required : BOOLEAN]

StaticDocument(fl) == [fields |-> fl, _dynamic |-> FALSE, has_dfields |-> FALSE, _dfields |-> {}]

NoFormSet == [forms |-> <<>>, initial_form_count |-> 0]
NoClass == [made |-> FALSE]

\* the caller's instance argument
NoInstance == [given |-> FALSE, pk |-> NoPk, vals |-> DefaultVals]
Loaded(coll) == { [given |-> TRUE, pk |-> p, vals |-> coll[p]] : p \in DOMAIN coll }
Unsaved(D) == { [given |-> TRUE, pk |-> NoPk, vals |-> d] : d \in D }

\* the declarations of the document's fields the model ranges over
Schemas == { fl \in [FieldNames -> Flags] : fl["owner"] = [unique |-> TRUE, required |-> FALSE] }

\* the documents the collection may hold at the start
StoredAtStart == { d \in FullDicts : d["name"] # Str("") }

NoInitial == [given |-> FALSE, d |-> EmptyDict]

Init ==
    /\ document \in { StaticDocument(fl) : fl \in Schemas }
    /\ meta \in { [valid |-> v] : v \in ValidSeqs }
    /\ collection \in {EmptyDict} \cup { [p \in {1} |-> d] : d \in StoredAtStart }
    /\ heap = <<>>
    /\ form = NoForm
    /\ result = Result("none")
    /\ formset = NoFormSet
    /\ klass = NoClass

Next ==
    \/ \E arg \in {NoInstance} \cup Loaded(collection) : MongoForm__init__(arg, NoInitial)
    \/ \E cd \in DictsOver(FieldNames) : full_clean(cd, TRUE)
    \/ validate_unique
    \/ \E commit \in BOOLEAN : save(commit)

Spec == Init /\ [][Next]_vars

----------------------------------------------------------------------------
(* Specification of form construction over static and dynamic documents *)

DynamicDocument(fl, has, df) == [fields |-> fl, _dynamic |-> TRUE, has_dfields |-> has, _dfields |-> df]

PlainFlags == [f \in FieldNames |-> [unique |-> FALSE, required |-> FALSE]]

DocumentClasses ==
    {StaticDocument(PlainFlags), DynamicDocument(PlainFlags, FALSE, {})}
    \cup { DynamicDocument(PlainFlags, TRUE, df) : df \in SUBSET FieldNames }

\* the objects a caller may hold: a static document has every declared field
\* as an attribute, a dynamic one may lack some
CallerVals(doc) == IF doc._dynamic THEN DictsOver(FieldNames) ELSE FullDicts

InitialArgs == {NoInitial} \cup { [given |-> TRUE, d |-> d] : d \in DictsOver(FieldNames) }

InitConstruct ==
    /\ document \in DocumentClasses
    /\ meta \in { [valid |-> v] : v \in ValidSeqs }
    /\ collection \in {EmptyDict} \cup { [p \in {1} |-> d] : d \in StoredAtStart }
    /\ heap = <<>>
    /\ form = NoForm
    /\ result = Result("none")
    /\ formset = NoFormSet
    /\ klass = NoClass

NextConstruct ==
    \E arg \in {NoInstance} \cup Loaded(collection) \cup Unsaved(CallerVals(document)) :
        \E initial \in InitialArgs : MongoForm__init__(arg, initial)

SpecConstruct == InitConstruct /\ [][NextConstruct]_vars

----------------------------------------------------------------------------
(* BaseDocumentFormSet *)

\* save_object that leaves commit at its default
save_object_DefaultCommit(h, coll, m, f, commit) == FormSave(h, coll, m, f, FALSE)

\* lines 262-264
save_object(h, coll, m, f, commit) == FormSave(h, coll, m, f, commit)

\* self.initial_forms = self.forms[:self.initial_form_count()]
InInitialForms(fs, i) == i <= fs.initial_form_count

RECURSIVE FormSetSaveFrom(_, _, _, _, _, _, _)
\* lines 271-277: the loop over self.forms from form i on
FormSetSaveFrom(i, fs, m, h, coll, saved, commit) ==
    IF i > Len(fs.forms) THEN [heap |-> h, coll |-> coll, saved |-> saved]
    ELSE LET f == fs.forms[i]
         IN IF ~f.changed /\ ~InInitialForms(fs, i)
            THEN FormSetSaveFrom(i + 1, fs, m, h, coll, saved, commit)
            ELSE LET r == save_object(h, coll, m, f, commit)
                 IN FormSetSaveFrom(i + 1, fs, m, r.heap, r.coll, Append(saved, r.ret), commit)

RECURSIVE ConstructForms(_, _, _, _, _)
\* the formset's forms: each is a MongoForm built without an instance and
\* bound to its part of the submitted data
ConstructForms(i, inputs, doc, m, acc) ==
    IF i > Len(inputs) THEN acc
    ELSE LET r == MongoFormInit(acc.heap, doc, m, NoObj, NoInitial)
             f == [built |-> TRUE, instance |-> r.instance, initial |-> r.initial,
                   fields |-> ValidNames(m), cleaned |-> FALSE, changed |-> FALSE,
                   cleaned_data |-> EmptyDict, _errors |-> {}]
             fc == Cleaned(f, inputs[i].cd, inputs[i].changed)
         IN ConstructForms(i + 1, inputs, doc, m,
                           [heap |-> r.heap, forms |-> Append(acc.forms, fc)])

\* a bound formset: `inputs` is the data of each form, `k` the number of
\* initial forms
BaseDocumentFormSet__init__(inputs, k) ==
    /\ formset.forms = <<>>
    /\ k <= Len(inputs)
    /\ \A i \in 1..Len(inputs) : DOMAIN inputs[i].cd \subseteq ValidNames(meta)
    /\ LET r == ConstructForms(1, inputs, document, meta, [heap |-> <<>>, forms |-> <<>>])
       IN /\ heap' = r.heap
          /\ formset' = [forms |-> r.forms, initial_form_count |-> k]
    /\ result' = Result("formset__init__")
    /\ UNCHANGED <<document, meta, collection, form, klass>>

\* lines 266-277
BaseDocumentFormSet_save(commit) ==
    /\ formset.forms # <<>>
    /\ LET r == FormSetSaveFrom(1, formset, meta, heap, collection, <<>>, commit)
       IN /\ heap' = r.heap
          /\ collection' = r.coll
          /\ result' = [Result("formset_save") EXCEPT !.saved = r.saved, !.commit = commit,
                                                      !.coll_before = collection]
    /\ UNCHANGED <<document, meta, form, formset, klass>>

\* what one form of the formset may submit
FormInputs == [cd : {EmptyDict, [k \in {"name"} |-> Str("x")],
                     [k \in FieldNames |-> IF k = "name" THEN Str("") ELSE Doc("7")]},
               changed : BOOLEAN]

InitFormSet ==
    /\ document = StaticDocument(PlainFlags)
    /\ meta \in { [valid |-> v] : v \in ValidSeqs }
    /\ collection = EmptyDict
    /\ heap = <<>>
    /\ form = NoForm
    /\ result = Result("none")
    /\ formset = NoFormSet
    /\ klass = NoClass

NextFormSet ==
    \/ \E n \in 1..MaxForms : \E inputs \in [1..n -> FormInputs] : \E k \in 0..n :
          BaseDocumentFormSet__init__(inputs, k)
    \/ \E commit \in BOOLEAN : BaseDocumentFormSet_save(commit)

SpecFormSet == InitFormSet /\ [][NextFormSet]_vars

----------------------------------------------------------------------------
(* MongoFormMetaClass.__new__ *)

\* a form field: its label, the document field it was generated from ("" for
\* a field declared on a form class), its creation counter, and the document
\* fields whose validator its clean method runs after its own cleaning
FormField(label, origin, counter) ==
    [label |-> label, origin |-> origin, creation_counter |-> counter, validators |-> <<>>]

\* utils.mongoengine_validate_wrapper(clean, field._validate) put in place of
\* the form field's clean: the wrapped clean also runs the document field's
\* validator
mongoengine_validate_wrapper(f, d) == [f EXCEPT !.validators = Append(@, d)]

\* field._validate(value) of a document field: a StringField takes strings,
\* a ReferenceField documents
DocFieldValidates(d, v) == v.t = (IF IsReferenceField(d) THEN "doc" ELSE "str")

\* formfield.clean(value) does not raise ValidationError
CleanAccepts(f, v) == \A i \in DOMAIN f.validators : DocFieldValidates(f.validators[i], v)

\* str.lower() on the labels
Lower(l) == CASE l = "Street" -> "street"
              [] l = "City" -> "city"
              [] l = "Name" -> "name"
              [] OTHER -> l

\* SortedDict: a sequence of [k, v] in key order
SDKeys(sd) == { sd[i].k : i \in DOMAIN sd }

\* sd[k] = v: a new key goes last, a known key keeps its place
SDSet(sd, k, v) ==
    IF k \in SDKeys(sd)
    THEN [i \in DOMAIN sd |-> IF sd[i].k = k THEN [k |-> k, v |-> v] ELSE sd[i]]
    ELSE Append(sd, [k |-> k, v |-> v])

RECURSIVE SDUpdate(_, _)
\* sd.update(items) / SortedDict(items)
SDUpdate(sd, items) ==
    IF items = <<>> THEN sd
    ELSE SDUpdate(SDSet(sd, Head(items).k, Head(items).v), Tail(items))

RECURSIVE SortByCounter(_)
\* lines 23-25: the declared fields sorted by creation_counter
SortByCounter(S) ==
    IF S = {} THEN <<>>
    ELSE LET first == CHOOSE x \in S : \A y \in S : x.v.creation_counter <= y.v.creation_counter
         IN <<first>> \o SortByCounter(S \ {first})

RECURSIVE BaseFields(_, _)
\* lines 28-30: the fields of the bases put in front, last base first
BaseFields(bases, fields) ==
    IF bases = <<>> THEN fields
    ELSE LET base == bases[Len(bases)]
             rest == SubSeq(bases, 1, Len(bases) - 1)
         IN BaseFields(rest, IF base.has_base_fields THEN base.base_fields \o fields ELSE fields)

RECURSIVE DictFields(_, _)
\* lines 52-54: every form field of the dict goes in under its lowered label
DictFields(doc_fields, fs) ==
    IF fs = <<>> THEN doc_fields
    ELSE DictFields(SDSet(doc_fields, Lower(Head(fs).label), Head(fs)), Tail(fs))

\* formfield_generator.generate(field_name, field): one form field, or a dict
\* of form fields (given in the order itervalues() yields them)
Generate(gen, d) ==
    IF gen[d].dict
    THEN [i \in DOMAIN gen[d].labels |-> FormField(gen[d].labels[i], d, 10 + i)]
    ELSE <<FormField(d, d, 10)>>

RECURSIVE DocFields(_, _, _)
\* lines 48-58: the walk through the document fields
DocFields(valid, gen, doc_fields) ==
    IF valid = <<>> THEN doc_fields
    ELSE LET d == Head(valid)
             fs == Generate(gen, d)
         IN DocFields(Tail(valid), gen,
                IF gen[d].dict THEN DictFields(doc_fields, fs)
                ELSE SDSet(doc_fields, d, mongoengine_validate_wrapper(fs[1], d)))

\* lines 20-67: the class statement `class name(bases): attrs`
MongoFormMetaClass__new__(declared, bases, Meta, gen) ==
    LET fields == BaseFields(bases, SortByCounter(declared))
        base_fields == SDUpdate(<<>>, fields)
        with_document == Meta.present /\ Meta.has_document
        doc_fields == DocFields(iter_valid_fields(Meta), gen, <<>>)
    IN /\ klass' = [made |-> TRUE,
                    base_fields |-> IF with_document THEN SDUpdate(doc_fields, base_fields)
                                    ELSE base_fields,
                    has_meta |-> Meta.present,
                    _meta |-> Meta]
       /\ result' = Result("__new__")
       /\ UNCHANGED <<document, meta, collection, heap, form, formset>>

\* the form fields a class statement may declare
DeclaredFields == { [k |-> "name", v |-> FormField("Name", "", 2)],
                    [k |-> "extra", v |-> FormField("Extra", "", 1)] }

\* the bases: MongoForm itself, a form class with fields of its own, and a
\* mixin without base_fields
BaseChoices ==
    { <<[has_base_fields |-> TRUE, base_fields |-> <<>>]>>,
      <<[has_base_fields |-> TRUE,
         base_fields |-> <<[k |-> "city", v |-> FormField("City", "", 3)]>>]>>,
      <<[has_base_fields |-> TRUE, base_fields |-> <<>>],
        [has_base_fields |-> FALSE, base_fields |-> <<>>]>> }

MetaChoices ==
    {[present |-> FALSE, has_document |-> FALSE, valid |-> <<>>]}
    \cup { [present |-> TRUE, has_document |-> hd, valid |-> v] :
             hd \in BOOLEAN, v \in ValidSeqs }

GeneratorChoices ==
    [FieldNames -> {[dict |-> FALSE, labels |-> <<>>],
                    [dict |-> TRUE, labels |-> <<"Street", "City">>],
                    [dict |-> TRUE, labels |-> <<"Name">>]}]

InitMeta ==
    /\ document = StaticDocument(PlainFlags)
    /\ meta = [valid |-> <<>>]
    /\ collection = EmptyDict
    /\ heap = <<>>
    /\ form = NoForm
    /\ result = Result("none")
    /\ formset = NoFormSet
    /\ klass = NoClass

NextMeta ==
    \E declared \in SUBSET DeclaredFields, bases \in BaseChoices,
       Meta \in MetaChoices, gen \in GeneratorChoices :
        MongoFormMetaClass__new__(declared, bases, Meta, gen)

SpecMeta == InitMeta /\ [][NextMeta]_vars

----------------------------------------------------------------------------
(* Claims about one form *)

\* C1: after save(commit) every valid field of the instance equals
\* cleaned_data.get(name) (None when absent); the instance's save() ran once
\* when commit is true (the stored copy then equals the instance) and not at
\* all when commit is false (the collection is unchanged); the value returned
\* is the form's own instance.
C1_SaveContract ==
    result.op = "save" =>
        LET obj == heap[form.instance]
        IN /\ \A n \in ValidNames(meta) :
                 /\ n \in DOMAIN obj.vals
                 /\ obj.vals[n] = (IF n \in DOMAIN form.cleaned_data
                                   THEN form.cleaned_data[n] ELSE None)
           /\ result.commit => /\ result.saves = 1
                               /\ obj.pk \in DOMAIN collection
                               /\ collection[obj.pk] = obj.vals
                               /\ \A p \in DOMAIN result.coll_before :
                                     p # obj.pk => /\ p \in DOMAIN collection
                                                   /\ collection[p] = result.coll_before[p]
           /\ ~result.commit => /\ result.saves = 0
                                /\ collection = result.coll_before
           /\ result.ret = form.instance

\* a committed save of an instance that held a value for a valid field the
\* cleaned data lacks
C1_Witness ==
    /\ result.op = "save" /\ result.commit
    /\ heap[form.instance].pk \in DOMAIN result.coll_before
    /\ \E n \in ValidNames(meta) :
          /\ n \notin DOMAIN form.cleaned_data
          /\ result.coll_before[heap[form.instance].pk][n] # None

\* C3: validate_unique adds an error for a unique, non-excluded field to the
\* form and to the returned list if and only if another stored document (not
\* the instance's own stored copy) holds the instance's value for it.
C3_UniqueErrorsIffCollision ==
    result.op = "validate_unique" =>
        \A n \in FieldNames :
            (document.fields[n].unique /\ n \notin result.exclude) =>
                ((n \in result.errors /\ n \in form._errors)
                    <=> (\E p \in DOMAIN collection :
                            /\ p # heap[form.instance].pk
                            /\ collection[p][n] = heap[form.instance].vals[n]))

----------------------------------------------------------------------------
(* Claims about construction *)

\* the instance's value as the form's initial data shows it
Shown(doc, k, v) ==
    IF IsReferenceField(k) /\ (doc._dynamic => k \in doc._dfields) /\ v \notin {None, Str("")}
    THEN Str(v.s) ELSE v

ConstructedFresh ==
    /\ heap[form.instance] = Object(NoPk, DefaultVals, "True")
    /\ form.initial = result.arg_initial.d

ConstructedAround(taken(_, _)) ==
    LET obj == heap[form.instance]
        given == result.arg_initial.d
        own == IF document._dynamic /\ ~document.has_dfields THEN {}
               ELSE { k \in ValidNames(meta) : k \in DOMAIN obj.vals }
    IN /\ form.instance = result.arg_instance
       /\ obj._adding = "False"
       /\ DOMAIN form.initial = own \cup DOMAIN given
       /\ \A k \in DOMAIN given : form.initial[k] = given[k]
       /\ \A k \in own \ DOMAIN given : form.initial[k] = taken(k, obj.vals[k])

\* C5 (as amended): with instance=None the form's instance is a fresh document
\* flagged _adding=True and the initial data is exactly `initial`; with a given
\* instance the form's instance is that object, flagged _adding=False, and the
\* initial data holds, for each valid field the instance has, the instance's
\* value, or the string of the referenced document's id for a non-empty
\* ReferenceField value, and nothing of the instance when the document is
\* dynamic without _dfields; keys of `initial` take precedence.
C5_InitialData ==
    result.op = "__init__" =>
        IF result.arg_instance = NoObj THEN ConstructedFresh
        ELSE LET taken(k, v) == Shown(document, k, v) IN ConstructedAround(taken)

\* a form built around an instance with a reference, with `initial` given
C5_Witness ==
    /\ result.op = "__init__" /\ result.arg_instance # NoObj
    /\ result.arg_initial.given
    /\ "name" \in DOMAIN result.arg_initial.d
    /\ "owner" \in DOMAIN form.initial /\ "owner" \notin DOMAIN result.arg_initial.d
    /\ form.initial["owner"] = Str("7")

\* C5 as stated: the initial data holds the instance's own value for every
\* valid field the instance has
C5_AsStated ==
    result.op = "__init__" =>
        IF result.arg_instance = NoObj THEN ConstructedFresh
        ELSE LET taken(k, v) == v
                 obj == heap[form.instance]
             IN /\ form.instance = result.arg_instance
                /\ obj._adding = "False"
                /\ \A k \in ValidNames(meta) :
                      (k \in DOMAIN obj.vals /\ k \notin DOMAIN result.arg_initial.d)
                          => (k \in DOMAIN form.initial /\ form.initial[k] = obj.vals[k])
                /\ \A k \in DOMAIN result.arg_initial.d :
                      k \in DOMAIN form.initial /\ form.initial[k] = result.arg_initial.d[k]

----------------------------------------------------------------------------
(* Claims about the formset *)

\* the forms save() has to handle: changed, or one of the initial forms
Handled(i) == formset.forms[i].changed \/ i <= formset.initial_form_count

RECURSIVE InstancesFrom(_)
\* the instances of the handled forms from form i on, in form order
InstancesFrom(i) ==
    IF i > Len(formset.forms) THEN <<>>
    ELSE IF Handled(i) THEN <<formset.forms[i].instance>> \o InstancesFrom(i + 1)
    ELSE InstancesFrom(i + 1)

\* C4: the formset's save(commit) returns, in form order, exactly one instance
\* for each form that has changed or is an initial form; the other forms are
\* neither saved nor returned; each handled form is saved with the formset's
\* commit flag, so commit=False persists nothing.
C4_FormSetSave ==
    result.op = "formset_save" =>
        /\ result.saved = InstancesFrom(1)
        /\ \A i \in 1..Len(formset.forms) :
              LET f == formset.forms[i]
                  obj == heap[f.instance]
              IN IF Handled(i)
                 THEN /\ \A n \in ValidNames(meta) :
                            obj.vals[n] = Get(f.cleaned_data, n)
                      /\ result.commit => /\ obj.pk \in DOMAIN collection
                                          /\ collection[obj.pk] = obj.vals
                 ELSE obj = Object(NoPk, DefaultVals, "True")
        /\ result.commit =>
              \A p \in DOMAIN collection :
                  \E i \in 1..Len(formset.forms) :
                      Handled(i) /\ heap[formset.forms[i].instance].pk = p
        /\ ~result.commit => collection = result.coll_before

\* a committed save of a formset with a skipped form, an unchanged initial
\* form and a changed extra form
C4_Witness ==
    /\ result.op = "formset_save" /\ result.commit
    /\ Len(formset.forms) = 3 /\ formset.initial_form_count = 1
    /\ ~formset.forms[1].changed /\ ~formset.forms[2].changed /\ formset.forms[3].changed
    /\ Len(result.saved) = 2
    /\ Cardinality(DOMAIN collection) = 2

----------------------------------------------------------------------------
(* Claims about the metaclass *)

\* C2: every form field generated from a document field has its clean wrapped
\* with that document field's validator, so a value the document field
\* rejects is rejected by the form field; also for the form fields of a dict
\* the generator returns for one document field.
C2_GeneratedFieldsValidate ==
    klass.made =>
        \A i \in DOMAIN klass.base_fields :
            LET f == klass.base_fields[i].v
            IN f.origin # "" =>
                  \A v \in AllValues : ~DocFieldValidates(f.origin, v) => ~CleanAccepts(f, v)

====
